---- MODULE Spec2Model ----
(***************************************************************************)
(* A model of npm-statistic (src/src/npm-statistic.js): the command-line   *)
(* entry point npmStatistic, the get / set / update command handlers, the  *)
(* JSON file store (writeJSON / readJSON), the path resolver getJsonPart   *)
(* and the statistics-file bookkeeping of updateCallback.                  *)
(*                                                                         *)
(* Text is modelled as a sequence of one-character strings, a file (and a  *)
(* raw command-line value) as a sequence of JSON lexemes (tokens), and a   *)
(* JavaScript value as a tagged record.                                    *)
(***************************************************************************)
EXTENDS Integers, Sequences, FiniteSets, TLC

(***************************************************************************)
(* JavaScript values                                                       *)
(***************************************************************************)
Undefined == [t |-> "undefined"]
Null == [t |-> "null"]
Bool(b) == [t |-> "bool", b |-> b]
Num(n) == [t |-> "num", n |-> n]
Str(s) == [t |-> "str", s |-> s]
\* An array: its elements (Undefined marks a hole) and the named, non-index
\* properties assigned to the array object.
Arr(a) == [t |-> "arr", a |-> a, x |-> <<>>]
\* An object: its own properties, <<key, value>> pairs in property order.
Obj(o) == [t |-> "obj", o |-> o]

\* ToBoolean: what `!v` and `v && ...` test.
Truthy(v) ==
  CASE v.t = "undefined" -> FALSE
    [] v.t = "null" -> FALSE
    [] v.t = "bool" -> v.b
    [] v.t = "num" -> v.n # 0
    [] v.t = "str" -> v.s # <<>>
    [] OTHER -> TRUE

\* typeof v === 'object' (null included, as in JavaScript).
TypeofObject(v) == v.t \in {"null", "arr", "obj"}

(***************************************************************************)
(* Text                                                                    *)
(***************************************************************************)
Digits == <<"0", "1", "2", "3", "4", "5", "6", "7", "8", "9">>

IsDigit(c) == \E d \in 1..10 : Digits[d] = c

DigitVal(c) == (CHOOSE d \in 1..10 : Digits[d] = c) - 1

RECURSIVE NumToString(_)
\* String(n) for a natural number n: its decimal digits.
NumToString(n) ==
  IF n < 10 THEN <<Digits[n + 1]>>
  ELSE NumToString(n \div 10) \o <<Digits[(n % 10) + 1]>>

RECURSIVE StrToNat(_)
\* The number a string of digits denotes.
StrToNat(s) ==
  IF s = <<>> THEN 0
  ELSE 10 * StrToNat(SubSeq(s, 1, Len(s) - 1)) + DigitVal(s[Len(s)])

\* A canonical numeric string of a natural number: "0", "7", "12", not "01".
IsCanonicalNat(k) ==
  /\ k # <<>>
  /\ \A i \in 1..Len(k) : IsDigit(k[i])
  /\ (Len(k) = 1 \/ k[1] # "0")

\* An array index (ECMAScript): a canonical numeric string below 2^32 - 1.
\* The keys of the model have at most nine digits, which all are.
IsArrayIndex(k) == IsCanonicalNat(k) /\ Len(k) <= 9

sLength == <<"l", "e", "n", "g", "t", "h">>
sPackages == <<"p", "a", "c", "k", "a", "g", "e", "s">>
sName == <<"n", "a", "m", "e">>
sUndefinedText == <<"u", "n", "d", "e", "f", "i", "n", "e", "d">>

RECURSIVE split(_, _)
\* String.prototype.split(sep) for a one-character separator.
split(s, sep) ==
  IF \A i \in 1..Len(s) : s[i] # sep THEN <<s>>
  ELSE LET i == CHOOSE j \in 1..Len(s) :
                  s[j] = sep /\ \A h \in 1..(j - 1) : s[h] # sep
       IN <<SubSeq(s, 1, i - 1)>> \o split(SubSeq(s, i + 1, Len(s)), sep)

(***************************************************************************)
(* Properties of values: own-property test, read and assignment            *)
(***************************************************************************)
KeyPos(o, k) == CHOOSE i \in 1..Len(o) : o[i][1] = k

HasKey(o, k) == \E i \in 1..Len(o) : o[i][1] = k

\* Object.prototype.hasOwnProperty.call(v, k) for a truthy v: a String object
\* owns its indices and "length", a Number or Boolean object owns nothing.
HasOwn(v, k) ==
  CASE v.t = "obj" -> HasKey(v.o, k)
    [] v.t = "arr" ->
         \/ k = sLength
         \/ IsArrayIndex(k) /\ StrToNat(k) < Len(v.a)
              /\ v.a[StrToNat(k) + 1] # Undefined
         \/ HasKey(v.x, k)
    [] v.t = "str" ->
         \/ k = sLength
         \/ IsArrayIndex(k) /\ StrToNat(k) < Len(v.s)
    [] OTHER -> FALSE

\* v[k] where HasOwn(v, k).
GetOwn(v, k) ==
  CASE v.t = "obj" -> v.o[KeyPos(v.o, k)][2]
    [] v.t = "arr" ->
         IF k = sLength THEN Num(Len(v.a))
         ELSE IF IsArrayIndex(k) THEN v.a[StrToNat(k) + 1]
         ELSE v.x[KeyPos(v.x, k)][2]
    [] v.t = "str" ->
         IF k = sLength THEN Num(Len(v.s))
         ELSE Str(<<v.s[StrToNat(k) + 1]>>)
    [] OTHER -> Undefined

\* v.k for the keys the program reads with a plain property access
\* ("packages", "name"), which no built-in prototype defines: the own
\* property, else undefined.  v is neither null nor undefined.
Get(v, k) == IF HasOwn(v, k) THEN GetOwn(v, k) ELSE Undefined

\* The position at which an ordinary object lists a new key: array indices
\* first, ascending, then the other keys in the order of their creation.
InsertPos(o, k) ==
  IF ~IsArrayIndex(k) THEN Len(o) + 1
  ELSE LET later == {i \in 1..Len(o) :
                       \/ ~IsArrayIndex(o[i][1])
                       \/ StrToNat(o[i][1]) > StrToNat(k)}
       IN IF later = {} THEN Len(o) + 1
          ELSE CHOOSE i \in later : \A j \in later : i <= j

\* The own properties o after o[k] = val (create or overwrite a data property).
PutKey(o, k, val) ==
  IF HasKey(o, k) THEN [o EXCEPT ![KeyPos(o, k)] = <<k, val>>]
  ELSE LET p == InsertPos(o, k)
       IN SubSeq(o, 1, p - 1) \o <<<<k, val>>>> \o SubSeq(o, p, Len(o))

RECURSIVE ToNumber(_)
\* ToNumber(v) where it is a natural number, else -1 (NaN or no array length).
\* Numbers and digits are naturals throughout the model.
ToNumber(v) ==
  CASE v.t = "null" -> 0
    [] v.t = "bool" -> IF v.b THEN 1 ELSE 0
    [] v.t = "num" -> v.n
    [] v.t = "str" ->
         IF \A i \in 1..Len(v.s) : IsDigit(v.s[i]) THEN StrToNat(v.s) ELSE -1
    [] v.t = "arr" ->
         IF v.a = <<>> THEN 0
         ELSE IF Len(v.a) > 1 THEN -1
         ELSE IF v.a[1].t \in {"null", "undefined"} THEN 0
         ELSE IF v.a[1].t \in {"bool", "obj"} THEN -1
         ELSE ToNumber(v.a[1])
    [] OTHER -> -1

Thrown == [ok |-> FALSE]
Done(v) == [ok |-> TRUE, v |-> v]

\* obj[key] = value for an object or array obj: the object afterwards, or
\* Thrown (the RangeError of an invalid array length; the numbers of the model
\* are below 2^32, so a length is invalid only when it is no number).
SetProp(obj, k, val) ==
  IF obj.t = "obj" THEN Done([obj EXCEPT !.o = PutKey(obj.o, k, val)])
  ELSE IF k = sLength THEN
    LET n == ToNumber(val)
    IN IF n < 0 THEN Thrown
       ELSE Done([obj EXCEPT !.a =
              [i \in 1..n |-> IF i <= Len(obj.a) THEN obj.a[i] ELSE Undefined]])
  ELSE IF IsArrayIndex(k) THEN
    LET i == StrToNat(k) + 1
    IN Done([obj EXCEPT !.a =
         [j \in 1..(IF i > Len(obj.a) THEN i ELSE Len(obj.a)) |->
            IF j = i THEN val
            ELSE IF j <= Len(obj.a) THEN obj.a[j] ELSE Undefined]])
  ELSE Done([obj EXCEPT !.x = PutKey(obj.x, k, val)])

(***************************************************************************)
(* JSON text: tokens, JSON.parse, JSON.stringify                           *)
(***************************************************************************)
Tok(k) == [k |-> k]
TNum(n) == [k |-> "num", n |-> n]
TStr(s) == [k |-> "str", s |-> s]
\* A run of characters that is no JSON lexeme (foo, hello, undefined).
TWord(s) == [k |-> "word", s |-> s]

ParseFail == [ok |-> FALSE]
Parsed(v, i) == [ok |-> TRUE, v |-> v, i |-> i]

RECURSIVE ParseValue(_, _), ParseElems(_, _, _), ParseMembers(_, _, _)
\* One JSON value starting at token i: the value and the index after it.
ParseValue(ts, i) ==
  IF i > Len(ts) THEN ParseFail
  ELSE LET k == ts[i].k
       IN CASE k = "null" -> Parsed(Null, i + 1)
            [] k = "true" -> Parsed(Bool(TRUE), i + 1)
            [] k = "false" -> Parsed(Bool(FALSE), i + 1)
            [] k = "num" -> Parsed(Num(ts[i].n), i + 1)
            [] k = "str" -> Parsed(Str(ts[i].s), i + 1)
            [] k = "[" ->
                 IF i + 1 <= Len(ts) /\ ts[i + 1].k = "]"
                 THEN Parsed(Arr(<<>>), i + 2)
                 ELSE ParseElems(ts, i + 1, <<>>)
            [] k = "{" ->
                 IF i + 1 <= Len(ts) /\ ts[i + 1].k = "}"
                 THEN Parsed(Obj(<<>>), i + 2)
                 ELSE ParseMembers(ts, i + 1, <<>>)
            [] OTHER -> ParseFail

\* The elements of an array from token i on, up to its "]".
ParseElems(ts, i, acc) ==
  LET r == ParseValue(ts, i)
  IN IF ~r.ok \/ r.i > Len(ts) THEN ParseFail
     ELSE IF ts[r.i].k = "," THEN ParseElems(ts, r.i + 1, Append(acc, r.v))
     ELSE IF ts[r.i].k = "]" THEN Parsed(Arr(Append(acc, r.v)), r.i + 1)
     ELSE ParseFail

\* The members of an object from token i on, up to its "}".  A repeated key
\* keeps its first position and takes the last value.
ParseMembers(ts, i, acc) ==
  IF i + 1 > Len(ts) \/ ts[i].k # "str" \/ ts[i + 1].k # ":" THEN ParseFail
  ELSE LET r == ParseValue(ts, i + 2)
       IN IF ~r.ok \/ r.i > Len(ts) THEN ParseFail
          ELSE LET o == PutKey(acc, ts[i].s, r.v)
               IN IF ts[r.i].k = "," THEN ParseMembers(ts, r.i + 1, o)
                  ELSE IF ts[r.i].k = "}" THEN Parsed(Obj(o), r.i + 1)
                  ELSE ParseFail

\* A parse that is the whole text, else a SyntaxError.
WholeText(r, ts) == IF r.ok /\ r.i = Len(ts) + 1 THEN Done(r.v) ELSE ParseFail

\* JSON.parse(text): [ok |-> TRUE, v |-> value], or ParseFail for a SyntaxError.
JSONparse(ts) == WholeText(ParseValue(ts, 1), ts)

RECURSIVE Ser(_), SerElems(_), SerMembers(_)
\* JSON.stringify(v) for a value other than undefined.  A hole of an array is
\* written as null; the named properties of an array are not written.
Ser(v) ==
  CASE v.t = "null" -> <<Tok("null")>>
    [] v.t = "bool" -> <<Tok(IF v.b THEN "true" ELSE "false")>>
    [] v.t = "num" -> <<TNum(v.n)>>
    [] v.t = "str" -> <<TStr(v.s)>>
    [] v.t = "arr" -> <<Tok("[")>> \o SerElems(v.a) \o <<Tok("]")>>
    [] v.t = "obj" -> <<Tok("{")>> \o SerMembers(v.o) \o <<Tok("}")>>
    [] OTHER -> <<Tok("null")>>

SerElems(a) ==
  IF a = <<>> THEN <<>>
  ELSE Ser(a[1]) \o (IF Len(a) = 1 THEN <<>> ELSE <<Tok(",")>> \o SerElems(Tail(a)))

SerMembers(o) ==
  IF o = <<>> THEN <<>>
  ELSE <<TStr(o[1][1]), Tok(":")>> \o Ser(o[1][2])
         \o (IF Len(o) = 1 THEN <<>> ELSE <<Tok(",")>> \o SerMembers(Tail(o)))

\* JSON.stringify(v) as console.log prints it: the text, or "undefined".
JSONstringify(v) == IF v = Undefined THEN <<TWord(sUndefinedText)>> ELSE Ser(v)

RECURSIVE TextOf(_)
\* The characters of a token sequence (a raw command-line argument).
TextOf(ts) ==
  IF ts = <<>> THEN <<>>
  ELSE LET k == ts[1].k
           head == CASE k = "num" -> NumToString(ts[1].n)
                     [] k = "str" -> <<"\"">> \o ts[1].s \o <<"\"">>
                     [] k = "word" -> ts[1].s
                     [] k = "null" -> <<"n", "u", "l", "l">>
                     [] k = "true" -> <<"t", "r", "u", "e">>
                     [] k = "false" -> <<"f", "a", "l", "s", "e">>
                     [] OTHER -> <<k>>
       IN head \o TextOf(Tail(ts))

(***************************************************************************)
(* The program's constants                                                 *)
(***************************************************************************)
UPDATE == "update"
SET == "set"
GET == "get"

CONFIG == <<"c", "o", "n", "f", "i", "g", ".", "j", "s", "o", "n">>
STATS == <<".", "/", "s", "t", "a", "t", "s", "/">>

sNextTask == <<"n", "e", "x", "t", "-", "t", "a", "s", "k">>

\* One line written to the console: the stream, the message and, for the
\* value that get prints, its text.
Line(stream, msg, text) == [stream |-> stream, msg |-> msg, text |-> text]

(***************************************************************************)
(* The JSON file store.  files maps the name of each existing file to its  *)
(* text.                                                                   *)
(***************************************************************************)
writeJSON(files, name, data) == (name :> Ser(data)) @@ files

\* catch(e) { return null; } around JSON.parse.
OrNull(r) == IF r.ok THEN r.v ELSE Null

readJSON(files, name) ==
  IF name \notin DOMAIN files THEN Null ELSE OrNull(JSONparse(files[name]))

(***************************************************************************)
(* Path resolution and the get / set handlers                              *)
(***************************************************************************)
RECURSIVE getJsonPart(_, _)
getJsonPart(json, keys) ==
  IF keys = <<>> THEN json
  ELSE IF Truthy(json) /\ HasOwn(json, keys[1])
       THEN getJsonPart(GetOwn(json, keys[1]), Tail(keys))
       ELSE Undefined

RECURSIVE assignAt(_, _, _, _)
\* config after obj[key] = value, where obj is the part of config that
\* getJsonPart(config, keys) returned (the same object, not a copy).
assignAt(json, keys, key, value) ==
  IF keys = <<>> THEN SetProp(json, key, value)
  ELSE LET r == assignAt(GetOwn(json, keys[1]), Tail(keys), key, value)
       IN IF r.ok THEN SetProp(json, keys[1], r.v) ELSE Thrown

\* What a handler leaves behind: the files, the lines it printed, how it
\* ended ("returned" or "threw") and the names it requested.
Handled(files, out, status, requests) ==
  [files |-> files, out |-> out, status |-> status, requests |-> requests,
   wrote |-> FALSE]

cmdGet(args, config, files) ==
  LET keys == IF args = <<>> THEN <<>> ELSE split(args[1], ".")
  IN Handled(files,
             <<Line("log", "value", JSONstringify(getJsonPart(config, keys)))>>,
             "returned", <<>>)

\* try { value = JSON.parse(args[1]) } catch(e) { value = args[1] }
OrRaw(r, raw) == IF r.ok THEN r.v ELSE Str(TextOf(raw))

\* The value set stores: the raw argument parsed as JSON, else as it is.
parseArg(raw) == OrRaw(JSONparse(raw), raw)

\* The end of set: config (r) is written, unless the assignment threw.
setWrite(r, files) ==
  IF r.ok
  THEN [Handled(writeJSON(files, CONFIG, r.v), <<>>, "returned", <<>>)
          EXCEPT !.wrote = TRUE]
  ELSE Handled(files, <<>>, "threw", <<>>)

\* setAssign without the return of its rejection: config is written anyway.
setAssignRewrites(obj, keys, key, raw, config, files) ==
  IF ~Truthy(obj) \/ ~TypeofObject(obj)
  THEN [Handled(writeJSON(files, CONFIG, config),
                <<Line("log", "Cannot set key", <<>>)>>, "returned", <<>>)
          EXCEPT !.wrote = TRUE]
  ELSE setWrite(assignAt(config, keys, key, parseArg(raw)), files)

\* set, once obj = getJsonPart(config, keys) is known.
setAssign(obj, keys, key, raw, config, files) ==
  IF ~Truthy(obj) \/ ~TypeofObject(obj)
  THEN Handled(files, <<Line("log", "Cannot set key", <<>>)>>, "returned", <<>>)
  ELSE setWrite(assignAt(config, keys, key, parseArg(raw)), files)

\* set, once the path is split: key = keys.pop().
setKeys(path, raw, config, files) ==
  setAssign(getJsonPart(config, SubSeq(path, 1, Len(path) - 1)),
            SubSeq(path, 1, Len(path) - 1), path[Len(path)], raw, config, files)

cmdSet(args, config, files) ==
  IF Len(args) < 2
  THEN Handled(files, <<Line("log", "Not enough args.", <<>>)>>, "returned", <<>>)
  ELSE setKeys(split(args[1], "."), args[2], config, files)

(***************************************************************************)
(* update: the synchronous part (one request per configured package)       *)
(***************************************************************************)
\* config.packages || []
OrEmpty(found) == IF Truthy(found) THEN found ELSE Arr(<<>>)

\* packages.map(pack => pack.name), then updatePackage(name) for each name.
\* map is no function of a value that is no array, and null has no name: a
\* TypeError, thrown before any request is made.
requestAll(packages, files) ==
  IF packages.t # "arr" \/ \E i \in 1..Len(packages.a) : packages.a[i] = Null
  THEN Handled(files, <<>>, "threw", <<>>)
  ELSE Handled(files, <<>>, "returned",
               [i \in 1..Len(packages.a) |-> Get(packages.a[i], sName)])

cmdUpdate(args, config, files) ==
  requestAll(OrEmpty(Get(config, sPackages)), files)

COMMANDS == {UPDATE, GET, SET}

Dispatch(command, args, config, files) ==
  CASE command = GET -> cmdGet(args, config, files)
    [] command = SET -> cmdSet(args, config, files)
    [] OTHER -> cmdUpdate(args, config, files)

\* if (!args[0]) args[0] = UPDATE
DefaultCommand(args0) ==
  IF args0 = <<>> THEN <<UPDATE>>
  ELSE IF args0[1] = "" THEN <<UPDATE>> \o Tail(args0)
  ELSE args0

\* Bootstrap without the test that config.json is missing: it is always
\* written as {}.
BootstrapOverwrites(args1, files0, dirs0) ==
  [files |-> writeJSON(files0, CONFIG, Obj(<<>>)),
   dirs |-> IF STATS \in dirs0 THEN dirs0 ELSE dirs0 \cup {STATS},
   out |-> <<Line("log", "Cannot find config", <<>>)>>,
   command |-> args1[1], args |-> Tail(args1), handler |-> FALSE,
   config |-> Undefined, status |-> "returned", requests |-> <<>>,
   wrote |-> FALSE]

\* The start of npmStatistic: command = args.shift(), config.json created
\* as {} and ./stats/ made where missing.
Bootstrap(args1, files0, dirs0) ==
  [files |-> IF CONFIG \in DOMAIN files0 THEN files0
             ELSE writeJSON(files0, CONFIG, Obj(<<>>)),
   dirs |-> IF STATS \in dirs0 THEN dirs0 ELSE dirs0 \cup {STATS},
   out |-> IF CONFIG \in DOMAIN files0 THEN <<>>
           ELSE <<Line("log", "Cannot find config", <<>>)>>,
   command |-> args1[1], args |-> Tail(args1), handler |-> FALSE,
   config |-> Undefined, status |-> "returned", requests |-> <<>>,
   wrote |-> FALSE]

\* What the handler h, run with cfg, adds to the invocation b.
Ran(b, cfg, h) ==
  [b EXCEPT !.files = h.files, !.out = b.out \o h.out, !.handler = TRUE,
            !.config = cfg, !.status = h.status, !.requests = h.requests,
            !.wrote = h.wrote]

\* The rest of npmStatistic, once config = readJSON(CONFIG) is known.
Route(b, cfg) ==
  IF ~Truthy(cfg)
  THEN [b EXCEPT !.out = b.out \o <<Line("error", "Wrong config format", <<>>)>>]
  ELSE IF b.command \notin COMMANDS
  THEN [b EXCEPT !.out = b.out \o <<Line("error", "Unknown command", <<>>)>>]
  ELSE Ran(b, cfg, Dispatch(b.command, b.args, cfg, b.files))

LoadConfig(b) == Route(b, readJSON(b.files, CONFIG))

\* The whole of npmStatistic(args) up to its return: the file system
\* afterwards, the console lines, the command, whether a handler ran and with
\* which configuration, and the requests left in flight.
npmStatistic(args0, files0, dirs0) ==
  LoadConfig(Bootstrap(DefaultCommand(args0), files0, dirs0))

(***************************************************************************)
(* update: the response callback                                           *)
(***************************************************************************)
StartYear == 2024

\* new Date() at clock tick c: months run from January of StartYear.
Now(c) == [year |-> StartYear + (c \div 12), month |-> c % 12]

\* getStatName without the leading zero of the months below 10.
getStatNameUnpadded(now) ==
  NumToString(now.month + 1) \o <<".">> \o NumToString(now.year)
    \o <<".", "j", "s", "o", "n">>

getStatName(now) ==
  LET year == now.year
      m == now.month + 1
      month == IF m < 10 THEN <<"0">> \o NumToString(m) ELSE NumToString(m)
  IN month \o <<".">> \o NumToString(year) \o <<".", "j", "s", "o", "n">>

parseRes(res) == Obj(<<<<sName, Str(sNextTask)>>>>)

\* updateCallback(res) at time now: the files afterwards, the statistics file
\* it used, the document it loaded and whether reading stat.packages threw.
\* The end of updateCallback: packages = stat.packages, a TypeError when
\* stat is null.
readPackages(pack, statName, created, files1, stat) ==
  [files |-> files1, statName |-> statName, created |-> created, stat |-> stat,
   threw |-> stat = Null, pack |-> pack,
   packages |-> IF stat = Null THEN Undefined ELSE Get(stat, sPackages)]

\* stat = readJSON(statName), after the file was created where missing.
loadStat(pack, statName, created, files1) ==
  readPackages(pack, statName, created, files1, readJSON(files1, statName))

\* try { fs.accessSync(statName) } catch(e) { writeJSON(statName, {packages: []}) }
ensureStat(pack, statName, files) ==
  loadStat(pack, statName, statName \notin DOMAIN files,
           IF statName \in DOMAIN files THEN files
           ELSE writeJSON(files, statName, Obj(<<<<sPackages, Arr(<<>>)>>>>)))

\* updateCallback(res) at time now: the files afterwards, the statistics file
\* it used, the document it loaded and whether reading stat.packages threw.
updateCallback(res, files, now) ==
  ensureStat(parseRes(res), STATS \o getStatName(now), files)

(***************************************************************************)
(* Bounds and inputs                                                       *)
(***************************************************************************)
\* Invocations of the tool in one behaviour.
MaxRuns == 2
\* Months the clock advances in one behaviour.
MaxTicks == 2

sA == <<"a">>
sB == <<"b">>
sK == <<"k">>
sS == <<"s">>
sXY == <<"x", "y">>
sLeftPad == <<"l", "e", "f", "t", "-", "p", "a", "d">>

Package(name) == Obj(<<<<sName, Str(name)>>>>)

\* {"a":{"b":1},"packages":[{"name":"left-pad"}],"s":"xy"}
MainDoc ==
  Obj(<< <<sA, Obj(<<<<sB, Num(1)>>>>)>>,
         <<sPackages, Arr(<<Package(sLeftPad)>>)>>,
         <<sS, Str(sXY)>> >>)

\* {"packages":[{"name":"a"},{"name":"b"}]}
TwoPackages == Obj(<<<<sPackages, Arr(<<Package(sA), Package(sB)>>)>>>>)

\* Texts of config.json that are no object: unparseable, or a scalar.
BadConfigTexts ==
  { <<Tok("{"), TStr(sA)>>, <<Tok("null")>>, <<TNum(0)>>, <<TNum(5)>>,
    <<TStr(sXY)>>, <<Tok("true")>>, <<Tok("false")>> }

ConfigTexts == {Ser(Obj(<<>>)), Ser(MainDoc), Ser(Arr(<<Num(1)>>))} \cup BadConfigTexts

\* The dotted paths given to get and set.
Paths ==
  { sA, <<"a", ".", "b">>, <<"a", ".", "b", ".", "c">>,
    sPackages \o <<".", "0">>, sPackages \o <<".", "2">>, sPackages \o <<".", "k">>,
    sPackages \o <<".">> \o sLength, <<"s", ".", "0">>, <<"s", ".">> \o sLength,
    <<"q", ".", "z">> }

\* The raw values given to set: 7, null, hi, {"k":[true]}, "s", [1 (no JSON).
RawValues ==
  { <<TNum(7)>>, <<Tok("null")>>, <<TWord(<<"h", "i">>)>>,
    Ser(Obj(<<<<sK, Arr(<<Bool(TRUE)>>)>>>>)), <<TStr(sS)>>, <<Tok("["), TNum(1)>> }

UnknownCommands == {"stats", "remove"}

\* Texts of a statistics file: well-formed, without the packages field,
\* unparseable, and the JSON text null.
StatTexts ==
  { Ser(Obj(<<<<sPackages, Arr(<<Package(sA)>>)>>>>)), Ser(Obj(<<>>)),
    <<Tok("{"), TStr(sPackages)>>, <<Tok("null")>> }

UpdateConfigTexts ==
  { Ser(Obj(<<>>)), Ser(MainDoc), Ser(TwoPackages),
    Ser(Obj(<<<<sPackages, Num(5)>>>>)), Ser(Obj(<<<<sPackages, Arr(<<Null>>)>>>>)) }

NoFiles == <<>>

(***************************************************************************)
(* State                                                                   *)
(***************************************************************************)
VARIABLES
  files,     \* the files on disk: name -> text
  dirs,      \* the directories on disk
  clock,     \* the wall clock, in months since January of StartYear
  status,    \* the process: "none", "waiting" (requests in flight), "exited", "threw"
  pending,   \* the requests in flight (indices of requests)
  requests,  \* the package names requested by the current invocation
  out,       \* the console lines of the current invocation
  inv,       \* the current invocation: command, arguments, what the handler got
  cbs,       \* the response callbacks run in the current invocation
  failed,    \* the requests whose failure logError has logged
  prev,      \* the path and raw value of the previous invocation, if a set that wrote
  nRuns,     \* invocations so far
  nTicks     \* clock ticks so far

vars == <<files, dirs, clock, status, pending, requests, out, inv, cbs, failed,
          prev, nRuns, nTicks>>

NoInvocation(f, d, c) ==
  [command |-> "", args |-> <<>>, handler |-> FALSE, config |-> Undefined,
   wrote |-> FALSE, pre |-> [files |-> f, dirs |-> d], start |-> c]

InitProcess ==
  /\ status = "none"
  /\ pending = {}
  /\ requests = <<>>
  /\ out = <<>>
  /\ inv = NoInvocation(files, dirs, clock)
  /\ cbs = <<>>
  /\ failed = {}
  /\ prev = [set |-> FALSE]
  /\ nRuns = 0
  /\ nTicks = 0

\* Any config.json, or none; no statistics yet.
Init ==
  /\ files \in {NoFiles} \cup {(CONFIG :> t) : t \in ConfigTexts}
  /\ dirs \in {{}, {STATS}}
  /\ clock = 0
  /\ InitProcess

\* update: a parseable config.json, any month, any state of that month's
\* statistics file.
InitUpdate ==
  /\ clock \in 0..11
  /\ dirs \in {{}, {STATS}}
  /\ \E c \in UpdateConfigTexts :
       \/ files = (CONFIG :> c)
       \/ /\ dirs = {STATS}
          /\ \E t \in StatTexts :
               files = (CONFIG :> c) @@ ((STATS \o getStatName(Now(clock))) :> t)
  /\ InitProcess

(***************************************************************************)
(* Actions                                                                 *)
(***************************************************************************)
\* One run of the tool with the command line args, up to the return of
\* npmStatistic.
Invoke(a) ==
  /\ \E r \in {npmStatistic(a, files, dirs)} :
        /\ files' = r.files
        /\ dirs' = r.dirs
        /\ out' = r.out
        /\ requests' = r.requests
        /\ pending' = IF r.status = "threw" THEN {} ELSE 1..Len(r.requests)
        /\ status' = IF r.status = "threw" THEN "threw"
                     ELSE IF r.requests # <<>> THEN "waiting" ELSE "exited"
        /\ inv' = [command |-> r.command, args |-> r.args, handler |-> r.handler,
                   config |-> r.config, wrote |-> r.wrote,
                   pre |-> [files |-> files, dirs |-> dirs], start |-> clock]
  /\ prev' = IF inv.command = SET /\ inv.wrote
             THEN [set |-> TRUE, path |-> inv.args[1], raw |-> inv.args[2]]
             ELSE [set |-> FALSE]
  /\ cbs' = <<>>
  /\ failed' = {}
  /\ nRuns' = nRuns + 1
  /\ UNCHANGED <<clock, nTicks>>

\* The tool runs one process at a time.
CanInvoke == status # "waiting" /\ nRuns < MaxRuns

InvokeGet ==
  CanInvoke /\ \E a \in {<<GET>>} \cup {<<GET, p>> : p \in Paths} : Invoke(a)

InvokeSet ==
  CanInvoke /\ \E a \in {<<SET>>} \cup {<<SET, p>> : p \in Paths}
                          \cup {<<SET, p, v>> : p \in Paths, v \in RawValues} :
                 Invoke(a)

InvokeUnknown == CanInvoke /\ \E c \in UnknownCommands : Invoke(<<c>>)

InvokeUpdate == CanInvoke /\ \E a \in {<<>>, <<"">>, <<UPDATE>>} : Invoke(a)

\* The response to request i arrives: updateCallback runs.  An exception it
\* throws is uncaught and ends the process, with the other requests.
Respond(i) ==
  /\ status = "waiting"
  /\ i \in pending
  /\ \E r \in {updateCallback(i, files, Now(clock))} :
        /\ files' = r.files
        /\ cbs' = Append(cbs, [req |-> i, now |-> Now(clock),
                               statName |-> r.statName, created |-> r.created,
                               stat |-> r.stat, threw |-> r.threw])
        /\ pending' = IF r.threw THEN {} ELSE pending \ {i}
        /\ status' = IF r.threw THEN "threw"
                     ELSE IF pending = {i} THEN "exited" ELSE "waiting"
  /\ UNCHANGED <<dirs, clock, requests, out, inv, failed, prev, nRuns, nTicks>>

\* Request i fails: the 'error' event calls logError.
Fail(i) ==
  /\ status = "waiting"
  /\ i \in pending
  /\ out' = Append(out, Line("log", "Got error", <<>>))
  /\ failed' = failed \cup {i}
  /\ pending' = pending \ {i}
  /\ status' = IF pending = {i} THEN "exited" ELSE "waiting"
  /\ UNCHANGED <<files, dirs, clock, requests, inv, cbs, prev, nRuns, nTicks>>

\* A month passes while responses are awaited.  The clock is read only by
\* updateCallback, so its movement between runs is the choice of the month in
\* which a run starts.
Tick ==
  /\ status = "waiting"
  /\ nTicks < MaxTicks
  /\ clock' = clock + 1
  /\ nTicks' = nTicks + 1
  /\ UNCHANGED <<files, dirs, status, pending, requests, out, inv, cbs, failed,
                 prev, nRuns>>

Responses == \E i \in 1..Len(requests) : Respond(i)

Failures == \E i \in 1..Len(requests) : Fail(i)

Next ==
  \/ InvokeGet
  \/ InvokeSet
  \/ InvokeUnknown
  \/ InvokeUpdate
  \/ Responses
  \/ Failures
  \/ Tick

\* update alone.
NextUpdate ==
  \/ InvokeUpdate
  \/ Responses
  \/ Failures
  \/ Tick

\* The tool with every command, started in January of StartYear on any
\* config.json.
Spec == Init /\ [][Next]_vars

\* update in every month, on every state of the month's statistics file.  The
\* other commands read neither the clock nor the statistics files, and update
\* does not write config.json.
SpecUpdate == InitUpdate /\ [][NextUpdate]_vars

(***************************************************************************)
(* Properties                                                              *)
(***************************************************************************)
\* An invocation has been made (inv describes it).
Invoked == status # "none"

\* The keys a get or set of the current invocation addresses.
InvKeys == IF inv.args = <<>> THEN <<>> ELSE split(inv.args[1], ".")

\* The text get printed.
Printed == out[Len(out)].text

HasLine(stream, msg) ==
  \E i \in 1..Len(out) : out[i].stream = stream /\ out[i].msg = msg

IsContainer(v) == v.t \in {"obj", "arr"}

RECURSIVE ResolveStrict(_, _)
\* Path resolution as specified: descend while the current value is an object
\* or array owning the key, else not found (undefined).
ResolveStrict(doc, keys) ==
  IF keys = <<>> THEN doc
  ELSE IF IsContainer(doc) /\ HasOwn(doc, keys[1])
       THEN ResolveStrict(GetOwn(doc, keys[1]), Tail(keys))
       ELSE Undefined

\* config.json as it was when the current invocation started.
PreConfigExists == CONFIG \in DOMAIN inv.pre.files
PreConfigText == inv.pre.files[CONFIG]

\* C1: after a set p v that succeeded (it wrote config.json, an object), the
\* next invocation, get p, prints v: the raw argument parsed as JSON, or the
\* raw argument as a string.
C1_SetThenGet ==
  (inv.command = GET /\ inv.handler /\ inv.config.t = "obj" /\ inv.args # <<>>
     /\ prev.set /\ prev.path = inv.args[1])
    => Printed = JSONstringify(parseArg(prev.raw))

\* C2: a set that is rejected (fewer than two arguments, or a parent path that
\* does not resolve to an object or array), given an existing and parseable
\* config.json, writes nothing and leaves config.json as it was.
C2_RejectedSetKeepsConfig ==
  (/\ Invoked /\ inv.command = SET
   /\ PreConfigExists /\ JSONparse(PreConfigText).ok
   /\ \/ Len(inv.args) < 2
      \/ ~IsContainer(ResolveStrict(JSONparse(PreConfigText).v,
                                    SubSeq(InvKeys, 1, Len(InvKeys) - 1))))
    => /\ ~inv.wrote
       /\ CONFIG \in DOMAIN files
       /\ files[CONFIG] = PreConfigText

\* A set with two arguments whose parent is missing or a scalar was rejected
\* by the handler.
C2_Witness ==
  /\ inv.command = SET /\ inv.handler /\ Len(inv.args) = 2
  /\ PreConfigExists /\ JSONparse(PreConfigText).ok
  /\ ~IsContainer(ResolveStrict(JSONparse(PreConfigText).v,
                                SubSeq(InvKeys, 1, Len(InvKeys) - 1)))
  /\ Len(InvKeys) > 1
  /\ HasLine("log", "Cannot set key")

\* C3: get prints what resolution through containers only gives: the value
\* reached through objects and arrays owning each key, else undefined.
C3_ContainersOnly ==
  (inv.command = GET /\ inv.handler)
    => Printed = JSONstringify(ResolveStrict(inv.config, InvKeys))

\* C4 as claimed: an unknown command reports the unknown command and leaves
\* the files and directories exactly as they were.
C4_UnknownNoSideEffects ==
  (Invoked /\ inv.command \notin COMMANDS)
    => /\ HasLine("error", "Unknown command")
       /\ files = inv.pre.files
       /\ dirs = inv.pre.dirs

\* C4 as amended: an unknown command runs no handler and makes no request; it
\* reports the unknown command, or the wrong configuration when config.json
\* holds no truthy JSON value; an existing config.json and every other file
\* are left as they were, and the only changes are the start-up's: config.json
\* created as {} and ./stats/ made where they were missing.
C4_UnknownOnlyBootstraps ==
  (Invoked /\ inv.command \notin COMMANDS)
    => /\ ~inv.handler /\ ~inv.wrote /\ requests = <<>> /\ status = "exited"
       /\ out[Len(out)].stream = "error"
       /\ out[Len(out)].msg =
            IF PreConfigExists
               /\ (~JSONparse(PreConfigText).ok \/ ~Truthy(JSONparse(PreConfigText).v))
            THEN "Wrong config format" ELSE "Unknown command"
       /\ files = IF PreConfigExists THEN inv.pre.files
                  ELSE (CONFIG :> <<Tok("{"), Tok("}")>>) @@ inv.pre.files
       /\ dirs = inv.pre.dirs \cup {STATS}

\* An unknown command was given where neither config.json nor ./stats/ existed.
C4_Witness ==
  /\ Invoked /\ inv.command \in UnknownCommands
  /\ ~PreConfigExists /\ inv.pre.dirs = {}
  /\ HasLine("error", "Unknown command")

\* C5: when config.json holds no object (unparseable text, null, a number, a
\* string, a boolean), the invocation reports the wrong configuration and no
\* handler runs.
C5_NonObjectConfigAborts ==
  (/\ Invoked /\ PreConfigExists
   /\ \/ ~JSONparse(PreConfigText).ok
      \/ JSONparse(PreConfigText).v.t \in {"null", "num", "str", "bool"})
    => /\ ~inv.handler
       /\ HasLine("error", "Wrong config format")

\* The configured packages are a list of objects.
IsPackageList(v) ==
  /\ v.t = "arr"
  /\ \A i \in 1..Len(v.a) : v.a[i].t = "obj"

Answered(i) == \E j \in 1..Len(cbs) : cbs[j].req = i

\* C6: update, given a list of packages, requests every package of the list;
\* no exception ends the process, whatever requests fail, and when it has
\* ended every request was either answered or its failure logged.
C6_FaultIsolation ==
  (/\ inv.command = UPDATE /\ inv.handler /\ inv.config.t = "obj"
   /\ IsPackageList(Get(inv.config, sPackages)))
    => /\ Len(requests) = Len(Get(inv.config, sPackages).a)
       /\ status # "threw"
       /\ status = "exited" =>
            \A i \in 1..Len(requests) : Answered(i) \/ i \in failed

\* C7: the document each response callback loads is an object with a packages
\* array, or else (a malformed or field-less file) an error is reported and
\* nothing is thrown.
C7_StatHasPackages ==
  \A j \in 1..Len(cbs) :
    \/ /\ ~cbs[j].threw
       /\ cbs[j].stat.t = "obj"
       /\ Get(cbs[j].stat, sPackages).t = "arr"
    \/ /\ ~cbs[j].threw
       /\ \E i \in 1..Len(out) : out[i].stream = "error"

\* The records named n in the packages of the statistics file name.
Records(name, n) ==
  IF name \notin DOMAIN files \/ ~JSONparse(files[name]).ok THEN {}
  ELSE IF JSONparse(files[name]).v.t # "obj" THEN {}
  ELSE IF Get(JSONparse(files[name]).v, sPackages).t # "arr" THEN {}
  ELSE {i \in 1..Len(Get(JSONparse(files[name]).v, sPackages).a) :
          /\ Get(JSONparse(files[name]).v, sPackages).a[i].t = "obj"
          /\ Get(Get(JSONparse(files[name]).v, sPackages).a[i], sName) = n}

\* C8: once an update has ended, the statistics file holds exactly one record
\* for each package whose request was answered.
C8_MergedByName ==
  (inv.command = UPDATE /\ status = "exited")
    => \A j \in 1..Len(cbs) :
         Cardinality(Records(cbs[j].statName, requests[cbs[j].req])) = 1

\* The two digits of a month number and the four digits of a year.
TwoDigits(m) == <<Digits[(m \div 10) + 1], Digits[(m % 10) + 1]>>
FourDigits(y) ==
  <<Digits[(y \div 1000) + 1], Digits[((y \div 100) % 10) + 1],
    Digits[((y \div 10) % 10) + 1], Digits[(y % 10) + 1]>>

\* C9: the statistics file a callback uses is ./stats/ + MM.YYYY + .json, MM the
\* month 01..12 in two characters and YYYY the year; March 2024 gives 03.2024
\* and December 2024 gives 12.2024.
C9_PeriodKey ==
  \A j \in 1..Len(cbs) :
    /\ cbs[j].statName =
         STATS \o TwoDigits(cbs[j].now.month + 1) \o <<".">>
               \o FourDigits(cbs[j].now.year) \o <<".", "j", "s", "o", "n">>
    /\ (cbs[j].now = [year |-> 2024, month |-> 2]) =>
         cbs[j].statName = STATS \o <<"0", "3", ".", "2", "0", "2", "4">>
                                 \o <<".", "j", "s", "o", "n">>
    /\ (cbs[j].now = [year |-> 2024, month |-> 11]) =>
         cbs[j].statName = STATS \o <<"1", "2", ".", "2", "0", "2", "4">>
                                 \o <<".", "j", "s", "o", "n">>

\* Callbacks ran in a month below October and in a month from October on.
C9_Witness ==
  /\ \E j \in 1..Len(cbs) : cbs[j].now.month + 1 < 10
  /\ \E j \in 1..Len(cbs) : cbs[j].now.month + 1 >= 10

\* C10: every response of an update is applied to the statistics file of the
\* month in which the invocation started.
C10_OnePeriodPerUpdate ==
  \A j \in 1..Len(cbs) : cbs[j].statName = STATS \o getStatName(Now(inv.start))

====
